---- MODULE Spec2Model ----
(***************************************************************************)
(* Nova bot: the giveaway lifecycle (src/cogs/giveaways.py), the shutdown  *)
(* of the bot (src/bot.py) and the music session of a guild                *)
(* (src/cogs/music.py).                                                    *)
(*                                                                         *)
(* Spec follows the giveaway, SpecStart gstart alone with a clock that     *)
(* moves by seconds, SpecParse parse_duration alone, SpecClose the sweep   *)
(* during Nova.close(), SpecMusic the play and loop commands of the music  *)
(* session, SpecSession these with pause, resume, skip and stop, SpecSkip  *)
(* the skip votes of a session that plays, SpecLeave the auto-leave of an  *)
(* emptied voice channel, SpecVolume the volume command, and SpecPlay the  *)
(* play command under fairness.                                            *)
(*                                                                         *)
(* One giveaway (one message id in one guild) is followed from gstart to   *)
(* its conclusion and rerolls.  Every coroutine is cut at its awaits: one  *)
(* action is the awaited call's effect on the store or on the message,     *)
(* followed by the synchronous code that runs up to the next await.        *)
(* The embed text of the message is not modelled, only whether the message *)
(* exists and whether it still carries the Enter button (its view).        *)
(***************************************************************************)
EXTENDS Integers, Sequences, FiniteSets, TLC

(***************************************************************************)
(* Bounds of the model                                                     *)
(***************************************************************************)
MaxUsers == 2        \* participants who may click Enter
MaxEntries == 2      \* accepted clicks on Enter: entries stored plus handlers suspended
MaxDrift == 2        \* seconds that pass while gstart alone is followed
MaxLen == 3          \* length of the strings given to parse_duration
MaxSongs == 3        \* songs that a search may return
MaxQueue == 2        \* length of the queue when a play command adds to it
MaxPlays == 2        \* play commands in flight
MaxTasks == 2        \* play_next coroutines scheduled or suspended
MaxHumans == 3       \* humans in the voice channel
MaxVoters == 2       \* users who give the skip command
MaxStops == 1        \* disconnect coroutines suspended at once
MaxSleepers == 2     \* on_voice_state_update coroutines asleep at once
MaxHalves == 6       \* half delays of auto-leave that pass while the channel is followed
MaxLevel == 150      \* levels given to the volume command, on either side of zero

Users == 1..MaxUsers

(***************************************************************************)
(* Program constants                                                       *)
(***************************************************************************)
MinWinners == 1
MaxWinners == 20
MinDuration == 60
MaxDuration == 2419200
DefaultVolume == 50  \* self.volume = 0.5, in percent
AutoLeaveDelay == 60    \* seconds that on_voice_state_update sleeps
LowestLevel == 0        \* the levels that the volume command accepts
HighestLevel == 100
LowestVolume == 0       \* the volumes that set_volume keeps, 0.0 and 1.0 in percent
HighestVolume == 100

(***************************************************************************)
(* parse_duration: strings are sequences of one-character strings          *)
(***************************************************************************)
DigitChars == <<"0", "1", "2", "3", "4", "5", "6", "7", "8", "9">>
Digit == {DigitChars[i] : i \in 1..10}
DigitVal(c) == (CHOOSE i \in 1..10 : DigitChars[i] = c) - 1
Whitespace == {" ", "\t", "\n"}
UpperChars == <<"S", "M", "H", "D", "W">>
LowerChars == <<"s", "m", "h", "d", "w">>
Unit == {LowerChars[i] : i \in 1..5}

lower_char(c) ==
    IF \E i \in 1..5 : UpperChars[i] = c
    THEN LowerChars[CHOOSE i \in 1..5 : UpperChars[i] = c]
    ELSE c

lower(s) == [i \in 1..Len(s) |-> lower_char(s[i])]

RECURSIVE lstrip(_)
lstrip(s) == IF s # <<>> /\ Head(s) \in Whitespace THEN lstrip(Tail(s)) ELSE s

RECURSIVE rstrip(_)
rstrip(s) ==
    IF s # <<>> /\ s[Len(s)] \in Whitespace
    THEN rstrip(SubSeq(s, 1, Len(s) - 1))
    ELSE s

strip(s) == rstrip(lstrip(s))

RECURSIVE int(_)
int(s) == IF s = <<>> THEN 0 ELSE 10 * int(SubSeq(s, 1, Len(s) - 1)) + DigitVal(s[Len(s)])

\* re.match(r'^(\d+)([smhdw])$', s)
duration_match(s) ==
    /\ Len(s) >= 2
    /\ s[Len(s)] \in Unit
    /\ \A i \in 1..(Len(s) - 1) : s[i] \in Digit

multipliers(unit) ==
    CASE unit = "s" -> 1
      [] unit = "m" -> 60
      [] unit = "h" -> 3600
      [] unit = "d" -> 86400
      [] unit = "w" -> 604800

ValueError == -1

\* parse_duration matching the string as given, without lower() and strip()
\* (the fault C12 excludes).
parse_duration_as_given(duration_string) ==
    IF ~duration_match(duration_string)
    THEN ValueError
    ELSE int(SubSeq(duration_string, 1, Len(duration_string) - 1))
            * multipliers(duration_string[Len(duration_string)])

\* duration_str.lower().strip(), the match, int(amount) * multipliers[unit]
parse_duration(duration_string) ==
    LET s == strip(lower(duration_string))
    IN  IF ~duration_match(s)
        THEN ValueError
        ELSE int(SubSeq(s, 1, Len(s) - 1)) * multipliers(s[Len(s)])

(***************************************************************************)
(* random.sample(population, k): k elements taken at k distinct positions, *)
(* in any order                                                            *)
(***************************************************************************)
Injective(p) == \A i, j \in DOMAIN p : i # j => p[i] # p[j]

sample(population, k) ==
    {[i \in 1..k |-> population[p[i]]] :
        p \in {q \in [1..k -> 1..Len(population)] : Injective(q)}}

Min(a, b) == IF a < b THEN a ELSE b
Max(a, b) == IF a > b THEN a ELSE b

Contains(seq, x) == \E i \in 1..Len(seq) : seq[i] = x

NoDuplicates(seq) == \A i, j \in 1..Len(seq) : i # j => seq[i] # seq[j]

(***************************************************************************)
(* State                                                                   *)
(***************************************************************************)
VARIABLES
    now,        \* datetime.utcnow(), in seconds
    stored,     \* the giveaway's document in db.giveaways (status "none": no document)
    message,    \* the giveaway's public message: "none", "posted", "ended", "deleted"
    gstart,     \* the giveaway_start coroutine
    entering,   \* per user, the enter_giveaway coroutines suspended at update_one
    conclude,   \* the end_giveaway coroutines, one of check_giveaways and one of giveaway_end
    reroll,     \* the giveaway_reroll coroutine
    duration_str,   \* the argument of a call of parse_duration
    parsed,         \* what that call returned
    bot,        \* Nova: the position of close(), the store connection and the loops
    player,     \* the guild's MusicPlayer
    voice,      \* the audio source the voice client plays, whether it is paused, and
                \* its volume in percent
    plays,      \* the play commands in flight, counted by the await they are suspended at
    tasks,      \* the play_next coroutines: scheduled by the after callback, or
                \* suspended at from_url with their song
    members,    \* the humans in the voice channel, and since when there are none
    reply,      \* the embed that a command of the music cog built last
    stops,      \* the disconnect coroutines suspended at voice_client.disconnect()
    sleepers    \* the on_voice_state_update coroutines asleep, by their time to wake

vars ==
    <<now, stored, message, gstart, entering, conclude, reroll, duration_str, parsed, bot,
      player, voice, plays, tasks, members, reply, stops, sleepers>>

giveaways == <<now, stored, message, gstart, entering, conclude, reroll>>
parsing == <<duration_str, parsed>>
music == <<player, voice, plays, tasks, members, reply, stops, sleepers>>

Callers == {"check_giveaways", "giveaway_end"}

NoDocument ==
    [status |-> "none", winner_count |-> 0, start_time |-> 0, end_time |-> 0,
     entries |-> <<>>, winners |-> <<>>, rerolled |-> FALSE]

Idle == [pc |-> "idle", entries |-> <<>>, winner_count |-> 0, winners |-> <<>>]

(***************************************************************************)
(* Inputs of gstart                                                        *)
(***************************************************************************)
WinnerInputs == {0, 1, 2, 21}
DurationInputs ==
    {<<"5", "9", "s">>, <<"1", "M", " ">>, <<"5", "w">>, <<"m">>}

\* The giveaway_start coroutine before any call: its arguments and end_time.
NoRequest ==
    [pc |-> "idle", manage_messages |-> FALSE, winners |-> 0, duration |-> <<>>,
     send_messages |-> FALSE, end_time |-> 0]

\* No giveaway yet, and no handler running.
GiveawaysInit ==
    /\ now = 0
    /\ stored = NoDocument
    /\ message = "none"
    /\ gstart = NoRequest
    /\ entering = [u \in Users |-> 0]
    /\ conclude = [c \in Callers |-> Idle]
    /\ reroll = [pc |-> "idle", new_winners |-> <<>>]

\* parse_duration has not been called.
NotCalled == -2

ParsingInit ==
    /\ duration_str = <<>>
    /\ parsed = NotCalled

\* Nova after setup_hook and on_ready: the store is connected, the status
\* rotator and the sweep loop of the Giveaways cog are running.
BotInit ==
    bot = [pc |-> "running", status_rotator |-> "running", db |-> "connected",
           check_giveaways |-> "running"]

\* Songs are numbered; None is no song, no voice client, no source.
Songs == 1..MaxSongs
None == 0

\* The voice client of the guild, connected to the caller's voice channel.
Channel == 1

\* The voice client plays nothing.
NoSource == [source |-> None, paused |-> FALSE, volume |-> 0]

\* No command of the music cog has built an embed yet.
NoReply == [embed |-> "none", value |-> 0]

\* MusicPlayer.__init__; the volume is held in percent.  No play command has
\* been given yet; one human sits in the voice channel.
MusicInit ==
    /\ player = [voice_client |-> None, queue |-> <<>>, current |-> None,
                 volume |-> DefaultVolume,
                 loop_mode |-> "off", skip_votes |-> {}]
    /\ voice = NoSource
    /\ plays = [connect |-> 0, search |-> 0]
    /\ tasks = [scheduled |-> 0, from_url |-> [song \in Songs |-> 0]]
    /\ members = [humans |-> 1, empty_since |-> 0]
    /\ reply = NoReply
    /\ stops = 0
    /\ sleepers = <<>>

Init ==
    /\ GiveawaysInit
    /\ ParsingInit
    /\ BotInit
    /\ MusicInit

(***************************************************************************)
(* The clock.  The code only compares utcnow() with the end time of the    *)
(* giveaway (now > end_time in enter_giveaway, end_time <= now in the      *)
(* sweep), so the clock is followed through the three cases it can tell    *)
(* apart: before the end time, at the end time, and after it.              *)
(***************************************************************************)
EndTimes ==
    (IF stored.status # "none" THEN {stored.end_time} ELSE {})
        \cup (IF gstart.pc \in {"send", "insert"} THEN {gstart.end_time} ELSE {})

ClockPoints == UNION {{e, e + 1} : e \in EndTimes}

Tick ==
    /\ \E t \in ClockPoints : t > now /\ now' = t
    /\ UNCHANGED <<stored, message, gstart, entering, conclude, reroll, parsing, bot, music>>

(***************************************************************************)
(* Store updates (db.giveaways.insert_one / update_one)                    *)
(***************************************************************************)
\* insert_one({... "winner_count": winners, "start_time": utcnow(), "end_time": end_time,
\*             "entries": [], "status": "active"})
new_giveaway(winners, start_time, end_time) ==
    [status |-> "active", winner_count |-> winners, start_time |-> start_time,
     end_time |-> end_time, entries |-> <<>>, winners |-> <<>>, rerolled |-> FALSE]

\* update_one({"message_id": ...}, {"$push": {"entries": user}})
push_entry(doc, user) == [doc EXCEPT !.entries = Append(@, user)]

\* update_one({"_id": ...}, {"$set": {"winners": winners}})
set_winners(doc, winners) == [doc EXCEPT !.winners = winners]

\* update_one({"_id": ...}, {"$set": {"status": "ended"}})
set_ended(doc) == [doc EXCEPT !.status = "ended"]

\* A reroll that would reopen the giveaway (the fault C10 excludes).
set_rerolled_reopens(doc, new_winners) ==
    [doc EXCEPT !.winners = new_winners, !.rerolled = TRUE, !.status = "active"]

\* update_one({"_id": ...}, {"$set": {"winners": new_winners, "rerolled": True}})
set_rerolled(doc, new_winners) == [doc EXCEPT !.winners = new_winners, !.rerolled = TRUE]

(***************************************************************************)
(* gstart                                                                  *)
(***************************************************************************)
\* The checks of giveaway_start without the upper limit on the number of
\* winners (the fault C11 excludes).
gstart_accepts_any_winners(manage_messages, winners, duration, send_messages) ==
    /\ manage_messages
    /\ ~(winners < MinWinners)
    /\ parse_duration(duration) # ValueError
    /\ ~(parse_duration(duration) < MinDuration)
    /\ ~(parse_duration(duration) > MaxDuration)
    /\ send_messages

\* The checks of giveaway_start, in the order of the code; TRUE when all pass.
gstart_accepts(manage_messages, winners, duration, send_messages) ==
    /\ manage_messages
    /\ ~(winners < MinWinners \/ winners > MaxWinners)
    /\ parse_duration(duration) # ValueError
    /\ ~(parse_duration(duration) < MinDuration)
    /\ ~(parse_duration(duration) > MaxDuration)
    /\ send_messages

\* Validation, end_time = utcnow() + duration, "Giveaway starting..." response;
\* a request that fails a check is answered with the error and returns.
giveaway_start(manage_messages, winners, duration, send_messages) ==
    /\ gstart.pc \in {"idle", "rejected"}
    /\ gstart' =
          [NoRequest EXCEPT
              !.manage_messages = manage_messages, !.winners = winners,
              !.duration = duration, !.send_messages = send_messages,
              !.pc = IF gstart_accepts(manage_messages, winners, duration, send_messages)
                     THEN "send" ELSE "rejected",
              !.end_time = IF gstart_accepts(manage_messages, winners, duration, send_messages)
                           THEN now + parse_duration(duration) ELSE 0]
    /\ UNCHANGED <<now, stored, message, entering, conclude, reroll, parsing, bot, music>>

\* message = await target_channel.send(embed=embed, view=view); a failure propagates.
giveaway_start_send(sent) ==
    /\ gstart.pc = "send"
    /\ IF sent
       THEN /\ message' = "posted"
            /\ gstart' = [gstart EXCEPT !.pc = "insert"]
       ELSE /\ gstart' = [gstart EXCEPT !.pc = "failed"]
            /\ UNCHANGED message
    /\ UNCHANGED <<now, stored, entering, conclude, reroll, parsing, bot, music>>

\* await db.giveaways.insert_one(...), then the success response; a failure propagates.
giveaway_start_insert(inserted) ==
    /\ gstart.pc = "insert"
    /\ IF inserted
       THEN /\ stored' = new_giveaway(gstart.winners, now, gstart.end_time)
            /\ gstart' = [gstart EXCEPT !.pc = "done"]
       ELSE /\ gstart' = [gstart EXCEPT !.pc = "failed"]
            /\ UNCHANGED stored
    /\ UNCHANGED <<now, message, entering, conclude, reroll, parsing, bot, music>>

(***************************************************************************)
(* The Enter button                                                        *)
(***************************************************************************)
RECURSIVE SuspendedUpTo(_)
SuspendedUpTo(u) == IF u = 0 THEN 0 ELSE entering[u] + SuspendedUpTo(u - 1)

Suspended == SuspendedUpTo(MaxUsers)

\* The checks of enter_giveaway without the test for a participant who is
\* already entered (the fault C13 excludes).
enter_accepts_again(giveaway, user) ==
    /\ giveaway.status = "active"
    /\ ~(now > giveaway.end_time)

\* find_one({..., "status": "active"}) and the three checks that follow it.
enter_accepts(giveaway, user) ==
    /\ giveaway.status = "active"
    /\ ~(now > giveaway.end_time)
    /\ ~Contains(giveaway.entries, user)

\* A click: the read of the document and the checks; the handler is then
\* suspended at update_one.
enter_giveaway(user) ==
    /\ message = "posted"
    /\ Len(stored.entries) + Suspended < MaxEntries
    /\ IF enter_accepts(stored, user)
       THEN entering' = [entering EXCEPT ![user] = @ + 1]
       ELSE UNCHANGED entering
    /\ UNCHANGED <<now, stored, message, gstart, conclude, reroll, parsing, bot, music>>

\* update_one($push), update_giveaway_embed and the success response.
enter_giveaway_update(user) ==
    /\ entering[user] > 0
    /\ stored' = push_entry(stored, user)
    /\ entering' = [entering EXCEPT ![user] = @ - 1]
    /\ UNCHANGED <<now, message, gstart, conclude, reroll, parsing, bot, music>>

(***************************************************************************)
(* end_giveaway, called by check_giveaways and by giveaway_end             *)
(***************************************************************************)
\* check_giveaways.cancel() was called while a pass of the sweep was suspended:
\* the next thing the pass sees at its await is CancelledError.
Cancelling(caller) == caller = "check_giveaways" /\ bot.check_giveaways = "cancelling"

\* The call: get_guild and get_channel, then the coroutine is suspended at fetch_message.
end_giveaway(caller, giveaway, guild, channel) ==
    conclude' = [conclude EXCEPT ![caller] =
        IF guild /\ channel
        THEN [pc |-> "fetch", entries |-> giveaway.entries,
              winner_count |-> giveaway.winner_count, winners |-> <<>>]
        ELSE Idle]

\* The periodic sweep: find({"status": "active", "end_time": {"$lte": utcnow()}}).
check_giveaways(guild, channel) ==
    /\ bot.check_giveaways = "running"
    /\ conclude["check_giveaways"].pc = "idle"
    /\ IF stored.status = "active" /\ stored.end_time <= now
       THEN end_giveaway("check_giveaways", stored, guild, channel)
       ELSE UNCHANGED conclude
    /\ UNCHANGED <<now, stored, message, gstart, entering, reroll, parsing, bot, music>>

\* gend: permission, int(message_id), find_one({..., "status": "active"}).
giveaway_end(manage_messages, valid_id, guild, channel) ==
    /\ conclude["giveaway_end"].pc = "idle"
    /\ IF manage_messages /\ valid_id /\ stored.status = "active"
       THEN end_giveaway("giveaway_end", stored, guild, channel)
       ELSE UNCHANGED conclude
    /\ UNCHANGED <<now, stored, message, gstart, entering, reroll, parsing, bot, music>>

\* fetch_message; any failure is taken for a deleted message.  On success the
\* winners are drawn from the entries the caller read.  The copy of the
\* document is dropped once it has no further effect on the store or on the
\* message's view (it only feeds the embed text from here on).
end_giveaway_fetch(caller, fetched) ==
    LET c == conclude[caller]
        winner_count == Min(c.winner_count, Len(c.entries))
    IN  /\ c.pc = "fetch"
        /\ ~Cancelling(caller)
        /\ IF ~(fetched /\ message \in {"posted", "ended"})
           THEN conclude' = [conclude EXCEPT ![caller] = [Idle EXCEPT !.pc = "mark_deleted"]]
           ELSE IF winner_count = 0
           THEN conclude' = [conclude EXCEPT ![caller] = [Idle EXCEPT !.pc = "edit"]]
           ELSE \E winners \in sample(c.entries, winner_count) :
                    conclude' = [conclude EXCEPT ![caller] =
                                     [Idle EXCEPT !.pc = "store", !.winners = winners]]
        /\ UNCHANGED <<now, stored, message, gstart, entering, reroll, parsing, bot, music>>

\* A return from the except branch without the store write (the fault C14
\* excludes).
end_giveaway_return_deleted(caller) ==
    /\ conclude[caller].pc = "mark_deleted"
    /\ ~Cancelling(caller)
    /\ conclude' = [conclude EXCEPT ![caller] = Idle]
    /\ UNCHANGED <<now, stored, message, gstart, entering, reroll, parsing, bot, music>>

\* except: update_one($set status ended); return
end_giveaway_mark_deleted(caller) ==
    /\ conclude[caller].pc = "mark_deleted"
    /\ ~Cancelling(caller)
    /\ stored' = set_ended(stored)
    /\ conclude' = [conclude EXCEPT ![caller] = Idle]
    /\ UNCHANGED <<now, message, gstart, entering, reroll, parsing, bot, music>>

\* update_one($set winners), then the direct messages to the winners.
end_giveaway_store(caller) ==
    /\ conclude[caller].pc = "store"
    /\ ~Cancelling(caller)
    /\ stored' = set_winners(stored, conclude[caller].winners)
    /\ conclude' = [conclude EXCEPT ![caller] = [Idle EXCEPT !.pc = "edit"]]
    /\ UNCHANGED <<now, message, gstart, entering, reroll, parsing, bot, music>>

\* message.edit(embed=embed, view=None); a failure ends the call in the outer except.
end_giveaway_edit(caller, edited) ==
    /\ conclude[caller].pc = "edit"
    /\ ~Cancelling(caller)
    /\ IF edited /\ message \in {"posted", "ended"}
       THEN /\ message' = "ended"
            /\ conclude' = [conclude EXCEPT ![caller] = [Idle EXCEPT !.pc = "mark"]]
       ELSE /\ conclude' = [conclude EXCEPT ![caller] = Idle]
            /\ UNCHANGED message
    /\ UNCHANGED <<now, stored, gstart, entering, reroll, parsing, bot, music>>

\* update_one($set status ended, ended_at)
end_giveaway_mark(caller) ==
    /\ conclude[caller].pc = "mark"
    /\ ~Cancelling(caller)
    /\ stored' = set_ended(stored)
    /\ conclude' = [conclude EXCEPT ![caller] = Idle]
    /\ UNCHANGED <<now, message, gstart, entering, reroll, parsing, bot, music>>

(***************************************************************************)
(* greroll                                                                 *)
(***************************************************************************)
\* permission, int(message_id), find_one({..., "status": "ended"}), the draw.
giveaway_reroll(manage_messages, valid_id) ==
    LET winner_count == Min(stored.winner_count, Len(stored.entries))
    IN  /\ reroll.pc = "idle"
        /\ IF manage_messages /\ valid_id /\ stored.status = "ended" /\ winner_count # 0
           THEN \E new_winners \in sample(stored.entries, winner_count) :
                    reroll' = [pc |-> "update", new_winners |-> new_winners]
           ELSE UNCHANGED reroll
        /\ UNCHANGED <<now, stored, message, gstart, entering, conclude, parsing, bot, music>>

\* update_one($set winners, rerolled), then the public announcement.
giveaway_reroll_update ==
    /\ reroll.pc = "update"
    /\ stored' = set_rerolled(stored, reroll.new_winners)
    /\ reroll' = [pc |-> "idle", new_winners |-> <<>>]
    /\ UNCHANGED <<now, message, gstart, entering, conclude, parsing, bot, music>>

(***************************************************************************)
(* The environment: somebody deletes the giveaway's message                *)
(***************************************************************************)
delete_message ==
    /\ message \in {"posted", "ended"}
    /\ message' = "deleted"
    /\ UNCHANGED <<now, stored, gstart, entering, conclude, reroll, parsing, bot, music>>

Next ==
    \/ Tick
    \/ \E manage_messages, send_messages \in BOOLEAN, winners \in WinnerInputs,
          duration \in DurationInputs :
            giveaway_start(manage_messages, winners, duration, send_messages)
    \/ \E sent \in BOOLEAN : giveaway_start_send(sent)
    \/ \E inserted \in BOOLEAN : giveaway_start_insert(inserted)
    \/ \E user \in Users : enter_giveaway(user)
    \/ \E user \in Users : enter_giveaway_update(user)
    \/ \E guild, channel \in BOOLEAN : check_giveaways(guild, channel)
    \/ \E manage_messages, valid_id, guild, channel \in BOOLEAN :
            giveaway_end(manage_messages, valid_id, guild, channel)
    \/ \E caller \in Callers, fetched \in BOOLEAN : end_giveaway_fetch(caller, fetched)
    \/ \E caller \in Callers : end_giveaway_mark_deleted(caller)
    \/ \E caller \in Callers : end_giveaway_store(caller)
    \/ \E caller \in Callers, edited \in BOOLEAN : end_giveaway_edit(caller, edited)
    \/ \E caller \in Callers : end_giveaway_mark(caller)
    \/ \E manage_messages, valid_id \in BOOLEAN : giveaway_reroll(manage_messages, valid_id)
    \/ giveaway_reroll_update
    \/ delete_message

Spec == Init /\ [][Next]_vars

(***************************************************************************)
(* gstart alone, second by second.  The requests cover both ends of the    *)
(* allowed winner counts and durations, and the clock moves between the    *)
(* suspension points of giveaway_start.                                    *)
(***************************************************************************)
StartWinnerInputs == {0, 1, 20, 21}
StartDurationInputs ==
    {<<"5", "9", "s">>, <<"6", "0", "s">>, <<"1", "M", " ">>, <<"4", "w">>, <<"5", "w">>,
     <<"m">>}

\* A second passes while giveaway_start is suspended or before it is called.
Elapse ==
    /\ now < MaxDrift
    /\ now' = now + 1
    /\ UNCHANGED <<stored, message, gstart, entering, conclude, reroll, parsing, bot, music>>

NextStart ==
    \/ Elapse
    \/ \E manage_messages, send_messages \in BOOLEAN, winners \in StartWinnerInputs,
          duration \in StartDurationInputs :
            giveaway_start(manage_messages, winners, duration, send_messages)
    \/ \E sent \in BOOLEAN : giveaway_start_send(sent)
    \/ \E inserted \in BOOLEAN : giveaway_start_insert(inserted)

SpecStart == Init /\ [][NextStart]_vars

(***************************************************************************)
(* parse_duration alone: one call on each string of at most MaxLen         *)
(* characters over digits, unit letters, an upper-case unit letter, a      *)
(* blank and a letter that is no unit.                                     *)
(***************************************************************************)
DurationChars == {"0", "1", "2", "3", "5", "s", "m", "h", "d", "w", "M", " ", "x"}

DurationStrings == UNION {[1..n -> DurationChars] : n \in 0..MaxLen}

InitParse ==
    /\ GiveawaysInit
    /\ duration_str \in DurationStrings
    /\ parsed = NotCalled
    /\ BotInit
    /\ MusicInit

\* seconds = self.parse_duration(duration), a ValueError caught by the caller
call_parse_duration ==
    /\ parsed = NotCalled
    /\ parsed' = parse_duration(duration_str)
    /\ UNCHANGED <<duration_str, giveaways, bot, music>>

NextParse == call_parse_duration

SpecParse == InitParse /\ [][NextParse]_vars

(***************************************************************************)
(* Shutdown: Nova.close() while the sweep works on a giveaway that a       *)
(* participant has entered.                                                *)
(***************************************************************************)
InitClose ==
    /\ now = 0
    /\ stored = push_entry(new_giveaway(MinWinners, 0, MinDuration), 1)
    /\ message = "posted"
    /\ gstart = [NoRequest EXCEPT !.pc = "done", !.manage_messages = TRUE,
                                  !.winners = MinWinners, !.duration = <<"6", "0", "s">>,
                                  !.send_messages = TRUE, !.end_time = MinDuration]
    /\ entering = [u \in Users |-> 0]
    /\ conclude = [c \in Callers |-> Idle]
    /\ reroll = [pc |-> "idle", new_winners |-> <<>>]
    /\ ParsingInit
    /\ BotInit
    /\ MusicInit

\* Nova.close up to its last await: status_rotator.cancel(), await db.close().
close ==
    /\ bot.pc = "running"
    /\ bot' = [bot EXCEPT !.pc = "super", !.status_rotator = "cancelled", !.db = "closed"]
    /\ UNCHANGED <<giveaways, parsing, music>>

\* await super().close(): the cogs are removed, and cog_unload of Giveaways
\* calls check_giveaways.cancel().  A pass that is suspended gets
\* CancelledError at its await; a loop that sleeps between passes ends.
close_super ==
    /\ bot.pc = "super"
    /\ bot' = [bot EXCEPT
                  !.pc = "closed",
                  !.check_giveaways =
                      IF @ # "running" THEN @
                      ELSE IF conclude["check_giveaways"].pc = "idle" THEN "cancelled"
                      ELSE "cancelling"]
    /\ UNCHANGED <<giveaways, parsing, music>>

\* CancelledError at the await of a pass of the sweep.  At fetch_message the
\* bare except takes it for a deleted message and the pass goes on to its
\* update_one, the loop never sees the cancellation; at every other await
\* it leaves end_giveaway and check_giveaways (neither except Exception
\* catches it) and ends the loop.
check_giveaways_cancelled ==
    /\ Cancelling("check_giveaways")
    /\ IF conclude["check_giveaways"].pc = "fetch"
       THEN /\ conclude' = [conclude EXCEPT !["check_giveaways"] =
                                 [Idle EXCEPT !.pc = "mark_deleted"]]
            /\ bot' = [bot EXCEPT !.check_giveaways = "running"]
       ELSE /\ conclude' = [conclude EXCEPT !["check_giveaways"] = Idle]
            /\ bot' = [bot EXCEPT !.check_giveaways = "cancelled"]
    /\ UNCHANGED <<now, stored, message, gstart, entering, reroll, parsing, music>>

\* An update_one of end_giveaway on a closed client that raises instead of
\* reconnecting: the except Exception of end_giveaway prints it.
end_giveaway_closed(caller) ==
    /\ bot.db = "closed"
    /\ conclude[caller].pc \in {"mark_deleted", "store", "mark"}
    /\ ~Cancelling(caller)
    /\ conclude' = [conclude EXCEPT ![caller] = Idle]
    /\ UNCHANGED <<now, stored, message, gstart, entering, reroll, parsing, bot, music>>

NextClose ==
    \/ Tick
    \/ \E guild, channel \in BOOLEAN : check_giveaways(guild, channel)
    \/ \E fetched \in BOOLEAN : end_giveaway_fetch("check_giveaways", fetched)
    \/ end_giveaway_mark_deleted("check_giveaways")
    \/ end_giveaway_store("check_giveaways")
    \/ \E edited \in BOOLEAN : end_giveaway_edit("check_giveaways", edited)
    \/ end_giveaway_mark("check_giveaways")
    \/ end_giveaway_closed("check_giveaways")
    \/ delete_message
    \/ close
    \/ close_super
    \/ check_giveaways_cancelled

SpecClose == InitClose /\ [][NextClose]_vars

(***************************************************************************)
(* The music session of one guild (src/cogs/music.py)                      *)
(***************************************************************************)
\* voice_client.is_playing()
is_playing == voice.source # None /\ ~voice.paused

RECURSIVE SumUpTo(_, _)
SumUpTo(f, n) == IF n = 0 THEN 0 ELSE f[n] + SumUpTo(f, n - 1)

\* The play_next coroutines in flight.
InFlight == tasks.scheduled + SumUpTo(tasks.from_url, MaxSongs)

\* play_next taking the front of a queue that is not empty even when the
\* loop mode is song (the fault C20 excludes).
next_song_from_queue(p) ==
    IF p.queue = <<>> /\ p.loop_mode # "song"
    THEN [returns |-> TRUE, song |-> None, queue |-> p.queue]
    ELSE IF p.loop_mode = "song" /\ p.current # None /\ p.queue = <<>>
    THEN [returns |-> FALSE, song |-> p.current, queue |-> p.queue]
    ELSE IF p.loop_mode = "queue" /\ p.current # None
    THEN [returns |-> FALSE, song |-> Head(Append(p.queue, p.current)),
          queue |-> Tail(Append(p.queue, p.current))]
    ELSE IF p.queue = <<>>
    THEN [returns |-> TRUE, song |-> None, queue |-> p.queue]
    ELSE [returns |-> FALSE, song |-> Head(p.queue), queue |-> Tail(p.queue)]

\* play_next up to its await: the song it goes on to resolve and the queue it
\* leaves, or a return.
next_song(p) ==
    IF p.queue = <<>> /\ p.loop_mode # "song"
    THEN [returns |-> TRUE, song |-> None, queue |-> p.queue]
    ELSE IF p.loop_mode = "song" /\ p.current # None
    THEN [returns |-> FALSE, song |-> p.current, queue |-> p.queue]
    ELSE IF p.loop_mode = "queue" /\ p.current # None
    THEN [returns |-> FALSE, song |-> Head(Append(p.queue, p.current)),
          queue |-> Tail(Append(p.queue, p.current))]
    ELSE IF p.queue = <<>>
    THEN [returns |-> TRUE, song |-> None, queue |-> p.queue]
    ELSE [returns |-> FALSE, song |-> Head(p.queue), queue |-> Tail(p.queue)]

\* A call of play_next on the player p by a coroutine that leaves the
\* coroutines t behind: it returns, or is suspended at from_url.
call_play_next(p, t) ==
    LET next == next_song(p)
    IN  /\ player' = [p EXCEPT !.queue = next.queue]
        /\ tasks' = IF next.returns THEN t
                    ELSE [t EXCEPT !.from_url[next.song] = @ + 1]

\* The play command up to its first await after defer(): the caller must be
\* in a voice channel; connect() when the player has no voice client.
play(in_voice) ==
    /\ plays.connect + plays.search < MaxPlays
    /\ IF ~in_voice THEN UNCHANGED plays
       ELSE IF player.voice_client = None
       THEN plays' = [plays EXCEPT !.connect = @ + 1]
       ELSE plays' = [plays EXCEPT !.search = @ + 1]
    /\ UNCHANGED <<giveaways, parsing, bot, player, voice, tasks, members, reply, stops, sleepers>>

\* self.voice_client = await channel.connect(); it raises when the guild has
\* a voice client by now or the connection fails, and that ends the command.
play_connect(connected) ==
    /\ plays.connect > 0
    /\ IF connected /\ player.voice_client = None
       THEN /\ player' = [player EXCEPT !.voice_client = Channel]
            /\ plays' = [plays EXCEPT !.connect = @ - 1, !.search = @ + 1]
       ELSE /\ plays' = [plays EXCEPT !.connect = @ - 1]
            /\ UNCHANGED player
    /\ UNCHANGED <<giveaways, parsing, bot, voice, tasks, members, reply, stops, sleepers>>

\* The song put at the front of the queue (the fault C27 excludes).
add_song_front(p, song) == [p EXCEPT !.queue = <<song>> \o @]

\* self.queue.append(song)
add_song(p, song) == [p EXCEPT !.queue = Append(@, song)]

\* The search returns: no result is an error message; otherwise the song is
\* made current and play_next is called when nothing plays and there is no
\* current song, and added to the queue in every other case, where the embed
\* carries len(player.queue) as the position.
play_search(result) ==
    /\ plays.search > 0
    /\ plays' = [plays EXCEPT !.search = @ - 1]
    /\ IF result = None \/ player.voice_client = None
       THEN UNCHANGED <<player, tasks, reply>>
       ELSE IF ~is_playing /\ player.current = None
       THEN /\ InFlight < MaxTasks
            /\ call_play_next([player EXCEPT !.current = result], tasks)
            /\ UNCHANGED reply
       ELSE /\ Len(player.queue) < MaxQueue
            /\ reply = NoReply
            /\ player' = add_song(player, result)
            /\ reply' = [embed |-> "added", value |-> Len(player'.queue)]
            /\ UNCHANGED tasks
    /\ UNCHANGED <<giveaways, parsing, bot, voice, members, stops, sleepers>>

\* The source ends: the voice client calls after, which schedules play_next.
after ==
    /\ is_playing
    /\ InFlight < MaxTasks
    /\ voice' = NoSource
    /\ tasks' = [tasks EXCEPT !.scheduled = @ + 1]
    /\ UNCHANGED <<giveaways, parsing, bot, player, plays, members, reply, stops, sleepers>>

\* A scheduled play_next starts.
play_next ==
    /\ tasks.scheduled > 0
    /\ call_play_next(player, [tasks EXCEPT !.scheduled = @ - 1])
    /\ UNCHANGED <<giveaways, parsing, bot, voice, plays, members, reply, stops, sleepers>>

\* from_url returns or raises.  With a source: current = song, the votes are
\* cleared and voice_client.play starts it; play raises without a voice
\* client, when a source is playing and when the voice client is being
\* disconnected.  Every exception is answered by another call of play_next.
play_next_from_url(song, resolved) ==
    LET ended == [tasks EXCEPT !.from_url[song] = @ - 1]
        chosen == [player EXCEPT !.current = song, !.skip_votes = {}]
    IN  /\ tasks.from_url[song] > 0
        /\ IF ~resolved
           THEN /\ call_play_next(player, ended)
                /\ UNCHANGED voice
           ELSE IF player.voice_client = None \/ is_playing \/ stops > 0
           THEN /\ call_play_next(chosen, ended)
                /\ UNCHANGED voice
           ELSE /\ player' = chosen
                /\ tasks' = ended
                /\ voice' = [source |-> song, paused |-> FALSE, volume |-> player.volume]
        /\ UNCHANGED <<giveaways, parsing, bot, plays, members, reply, stops, sleepers>>

\* The loop command: player.loop_mode = mode
loop(mode) ==
    /\ player' = [player EXCEPT !.loop_mode = mode]
    /\ UNCHANGED <<giveaways, parsing, bot, voice, plays, tasks, members, reply, stops, sleepers>>

LoopModes == {"off", "song", "queue"}

\* The command's last await, interaction.response.send_message(embed) or
\* followup.send(embed), returns.
send_message ==
    /\ reply # NoReply
    /\ reply' = NoReply
    /\ UNCHANGED <<giveaways, parsing, bot, player, voice, plays, tasks, members, stops,
                   sleepers>>

\* The pause command; without a voice client that plays it only answers
\* with an error.
pause ==
    /\ player.voice_client # None /\ is_playing
    /\ voice' = [voice EXCEPT !.paused = TRUE]
    /\ UNCHANGED <<giveaways, parsing, bot, player, plays, tasks, members, reply, stops,
                   sleepers>>

\* voice_client.is_paused()
is_paused == voice.source # None /\ voice.paused

\* The resume command; without a voice client that is paused it only
\* answers with an error.
resume ==
    /\ player.voice_client # None /\ is_paused
    /\ voice' = [voice EXCEPT !.paused = FALSE]
    /\ UNCHANGED <<giveaways, parsing, bot, player, plays, tasks, members, reply, stops,
                   sleepers>>

\* voice_client.stop(): the source is dropped and its after callback
\* schedules play_next.
voice_client_stop ==
    /\ InFlight < MaxTasks
    /\ voice' = NoSource
    /\ tasks' = [tasks EXCEPT !.scheduled = @ + 1]

\* MusicPlayer.skip: the source is stopped when the voice client plays.
MusicPlayer_skip ==
    IF player.voice_client # None /\ is_playing
    THEN voice_client_stop
    ELSE UNCHANGED <<voice, tasks>>

Voters == 1..MaxVoters

\* The votes needed with voice_members humans in the channel, counted as a
\* bare majority of the humans rounded up.
required_votes_half(voice_members) == (voice_members + 1) \div 2

\* required_votes = len(voice_members) // 2 + 1
required_votes(voice_members) == voice_members \div 2 + 1

\* The skip command of user: an error without a voice client or a current
\* song; a user alone in the channel or with manage_channels skips at once;
\* every other user adds a vote, and the votes skip when they reach
\* required_votes.
skip(user, manage_channels) ==
    LET voice_members == members.humans
        votes == player.skip_votes \cup {user}
    IN  /\ reply = NoReply
        /\ IF player.voice_client = None \/ player.current = None
           THEN /\ reply' = [embed |-> "error", value |-> 0]
                /\ UNCHANGED <<player, voice, tasks>>
           ELSE IF voice_members = 1 \/ manage_channels
           THEN /\ MusicPlayer_skip
                /\ reply' = [embed |-> "skipped", value |-> 0]
                /\ UNCHANGED player
           ELSE /\ player' = [player EXCEPT !.skip_votes = votes]
                /\ IF Cardinality(votes) >= required_votes(voice_members)
                   THEN /\ MusicPlayer_skip
                        /\ reply' = [embed |-> "skipped", value |-> 0]
                   ELSE /\ reply' = [embed |-> "vote", value |-> Cardinality(votes)]
                        /\ UNCHANGED <<voice, tasks>>
        /\ UNCHANGED <<giveaways, parsing, bot, plays, members, stops, sleepers>>

\* The stop command with a voice client: player.disconnect() calls
\* voice_client.disconnect(), which stops the source, and waits for it.
\* Without a voice client the command only answers with an error.
stop ==
    /\ player.voice_client # None
    /\ stops < MaxStops
    /\ stops' = stops + 1
    /\ IF voice.source # None THEN voice_client_stop ELSE UNCHANGED <<voice, tasks>>
    /\ UNCHANGED <<giveaways, parsing, bot, player, plays, members, reply, sleepers>>

\* voice_client.disconnect() returns to MusicPlayer.disconnect: the voice
\* client, the queue and the current song are cleared.
disconnect ==
    /\ stops > 0
    /\ stops' = stops - 1
    /\ player' = [player EXCEPT !.voice_client = None, !.queue = <<>>, !.current = None]
    /\ UNCHANGED <<giveaways, parsing, bot, voice, plays, tasks, members, reply, sleepers>>

\* A human joins the voice channel (change = 1), leaves it (-1) or changes
\* the voice state otherwise (0).  With a voice client and no human left in
\* its channel the handler goes to sleep for AutoLeaveDelay seconds.
on_voice_state_update(change) ==
    LET humans == members.humans + change
    IN  /\ humans \in 0..MaxHumans
        /\ members' = [humans |-> humans,
                       empty_since |-> IF humans > 0 THEN 0
                                       ELSE IF members.humans = 0 THEN members.empty_since
                                       ELSE now]
        /\ IF player.voice_client # None /\ humans = 0
           THEN /\ Len(sleepers) < MaxSleepers
                /\ sleepers' = Append(sleepers, now + AutoLeaveDelay)
           ELSE UNCHANGED sleepers
        /\ UNCHANGED <<giveaways, parsing, bot, player, voice, plays, tasks, reply, stops>>

Changes == {-1, 0, 1}

\* The volume command taking every level.
volume_accepts_any(level) == TRUE

\* level < 0 or level > 100 is refused.
volume_accepts(level) == ~(level < LowestLevel \/ level > HighestLevel)

\* MusicPlayer.set_volume on the player: max(0.0, min(1.0, volume)), here
\* in percent.
set_volume(p, volume) ==
    [p EXCEPT !.volume = Max(LowestVolume, Min(HighestVolume, volume))]

\* The volume command: a level that is not accepted is answered with an
\* error; an accepted one goes to set_volume as level / 100.0, which also
\* sets the volume of the source that the voice client holds.
volume(level) ==
    /\ reply = NoReply
    /\ IF ~volume_accepts(level)
       THEN /\ reply' = [embed |-> "error", value |-> 0]
            /\ UNCHANGED <<player, voice>>
       ELSE /\ player' = set_volume(player, level)
            /\ voice' = IF player.voice_client # None /\ voice.source # None
                        THEN [voice EXCEPT !.volume = player'.volume]
                        ELSE voice
            /\ reply' = [embed |-> "volume", value |-> level]
    /\ UNCHANGED <<giveaways, parsing, bot, plays, tasks, members, stops, sleepers>>

Levels == (0 - MaxLevel)..MaxLevel

\* asyncio.sleep(60) returns to the oldest sleeper, at its time or later:
\* with a voice client and still no human in its channel the handler calls
\* player.disconnect(), which stops the source and waits for
\* voice_client.disconnect().
auto_leave ==
    /\ sleepers # <<>>
    /\ now >= Head(sleepers)
    /\ sleepers' = Tail(sleepers)
    /\ IF player.voice_client # None /\ members.humans = 0
       THEN /\ stops < MaxStops
            /\ stops' = stops + 1
            /\ IF voice.source # None THEN voice_client_stop ELSE UNCHANGED <<voice, tasks>>
       ELSE UNCHANGED <<stops, voice, tasks>>
    /\ UNCHANGED <<giveaways, parsing, bot, player, plays, members, reply>>

\* Half of the delay of auto-leave passes.
pass_time ==
    /\ now + AutoLeaveDelay \div 2 <= MaxHalves * (AutoLeaveDelay \div 2)
    /\ now' = now + AutoLeaveDelay \div 2
    /\ UNCHANGED <<stored, message, gstart, entering, conclude, reroll, parsing, bot, music>>

NextMusic ==
    \/ \E in_voice \in BOOLEAN : play(in_voice)
    \/ \E connected \in BOOLEAN : play_connect(connected)
    \/ \E result \in Songs \cup {None} : play_search(result)
    \/ after
    \/ play_next
    \/ \E song \in Songs, resolved \in BOOLEAN : play_next_from_url(song, resolved)
    \/ \E mode \in LoopModes : loop(mode)
    \/ send_message

SpecMusic == Init /\ [][NextMusic]_vars

\* The session with the commands that change what is played, in a voice
\* channel that keeps a human.
NextSession ==
    \/ NextMusic
    \/ pause
    \/ resume
    \/ \E user \in Voters, manage_channels \in BOOLEAN : skip(user, manage_channels)
    \/ stop
    \/ disconnect
    \/ \E change \in Changes :
          /\ members.humans + change > 0
          /\ on_voice_state_update(change)

SpecSession == Init /\ [][NextSession]_vars

\* A session that plays song 1 with song 2 queued, as the play command leaves
\* it.
Playing ==
    /\ GiveawaysInit /\ ParsingInit /\ BotInit
    /\ player = [voice_client |-> Channel, queue |-> <<2>>, current |-> 1,
                 volume |-> DefaultVolume, loop_mode |-> "off", skip_votes |-> {}]
    /\ voice = [source |-> 1, paused |-> FALSE, volume |-> DefaultVolume]
    /\ plays = [connect |-> 0, search |-> 0]
    /\ tasks = [scheduled |-> 0, from_url |-> [song \in Songs |-> 0]]
    /\ members = [humans |-> 1, empty_since |-> 0]
    /\ reply = NoReply
    /\ stops = 0
    /\ sleepers = <<>>

\* The skip command given by users without manage_channels to a session
\* that plays, in a voice channel that keeps a human.
NextSkip ==
    \/ \E user \in Voters : skip(user, FALSE)
    \/ send_message
    \/ pause
    \/ resume
    \/ after
    \/ play_next
    \/ \E song \in Songs, resolved \in BOOLEAN : play_next_from_url(song, resolved)
    \/ \E mode \in LoopModes : loop(mode)
    \/ \E change \in Changes :
          /\ members.humans + change > 0
          /\ on_voice_state_update(change)

SpecSkip == Playing /\ [][NextSkip]_vars

\* The voice channel of a session that plays, followed by the clock.
NextLeave ==
    \/ \E change \in Changes : on_voice_state_update(change)
    \/ pass_time
    \/ auto_leave
    \/ disconnect
    \/ after
    \/ play_next
    \/ \E song \in Songs, resolved \in BOOLEAN : play_next_from_url(song, resolved)

SpecLeave == Playing /\ [][NextLeave]_vars

\* The volume command given to a new session and to one that plays.
NextVolume ==
    \/ \E level \in Levels : volume(level)
    \/ send_message

\* A session that has not played yet, or one that plays.
NewOrPlaying == Init \/ Playing

SpecVolume == NewOrPlaying /\ [][NextVolume]_vars

\* The session under loop mode off with play commands only, where every
\* from_url returns a source.
NextPlay ==
    \/ \E in_voice \in BOOLEAN : play(in_voice)
    \/ \E connected \in BOOLEAN : play_connect(connected)
    \/ \E result \in Songs \cup {None} : play_search(result)
    \/ after
    \/ play_next
    \/ \E song \in Songs : play_next_from_url(song, TRUE)
    \/ send_message

\* Every await returns, every scheduled play_next runs and every source
\* that plays comes to its end.
SpecPlay ==
    /\ NewOrPlaying
    /\ [][NextPlay]_vars
    /\ WF_vars(\E connected \in BOOLEAN : play_connect(connected))
    /\ WF_vars(\E result \in Songs \cup {None} : play_search(result))
    /\ WF_vars(after)
    /\ WF_vars(play_next)
    /\ WF_vars(\E song \in Songs : play_next_from_url(song, TRUE))
    /\ WF_vars(send_message)

TypeOK ==
    /\ now \in Nat
    /\ stored.status \in {"none", "active", "ended"}
    /\ message \in {"none", "posted", "ended", "deleted"}
    /\ gstart.pc \in {"idle", "rejected", "send", "insert", "done", "failed"}
    /\ \A u \in Users : entering[u] \in 0..MaxEntries
    /\ \A c \in Callers :
          conclude[c].pc \in {"idle", "fetch", "mark_deleted", "store", "edit", "mark"}
    /\ reroll.pc \in {"idle", "update"}
    /\ parsed \in {NotCalled, ValueError} \cup Nat
    /\ bot.pc \in {"running", "super", "closed"}
    /\ bot.status_rotator \in {"running", "cancelled"}
    /\ bot.db \in {"connected", "closed"}
    /\ bot.check_giveaways \in {"running", "cancelling", "cancelled"}
    /\ player.voice_client \in {None, Channel}
    /\ player.current \in Songs \cup {None}
    /\ \A i \in 1..Len(player.queue) : player.queue[i] \in Songs
    /\ Len(player.queue) <= MaxQueue
    /\ player.loop_mode \in LoopModes
    /\ voice.source \in Songs \cup {None}
    /\ voice.volume \in 0..100
    /\ player.volume \in 0..100
    /\ plays.connect + plays.search <= MaxPlays
    /\ InFlight <= MaxTasks
    /\ player.skip_votes \subseteq Voters
    /\ members.humans \in 0..MaxHumans
    /\ reply.embed \in {"none", "added", "skipped", "vote", "error", "volume"}
    /\ stops \in 0..MaxStops
    /\ Len(sleepers) <= MaxSleepers

(***************************************************************************)
(* Properties                                                              *)
(***************************************************************************)
Subset(seq, of) == \A i \in 1..Len(seq) : Contains(of, seq[i])

\* C1: under any interleaving of the sweep and a manual gend, end_giveaway
\* draws winners at most once and stores winners at most once: no call draws
\* winners once the stored status is ended, and every call that stores
\* winners finds none stored.
C1_ConcludeOnce ==
    [][\A c \in Callers :
          /\ (conclude[c].pc = "fetch" /\ conclude'[c].pc = "store")
                => stored.status # "ended"
          /\ (conclude[c].pc = "store" /\ conclude'[c].pc = "edit")
                => stored.winners = <<>>]_vars

\* C2: when end_giveaway has run to its end, the status is ended and the
\* stored winners are min(winner_count, |entries|) distinct participants
\* taken from the stored entries.
C2_ConcludeWinners ==
    [][\A c \in Callers :
          (conclude[c].pc = "mark" /\ conclude'[c].pc = "idle")
            => /\ stored'.status = "ended"
               /\ Len(stored'.winners) = Min(stored'.winner_count, Len(stored'.entries))
               /\ Subset(stored'.winners, stored'.entries)
               /\ NoDuplicates(stored'.winners)]_vars

\* C3: the stored entries never hold the same participant twice.
C3_EntriesUnique == NoDuplicates(stored.entries)

\* C4: a click on Enter evaluated at a time that is not strictly before the
\* end time is rejected: no handler goes on to the store write.
C4_EnterAfterEnd ==
    [][\A u \in Users :
          (stored.status # "none" /\ now >= stored.end_time)
            => entering'[u] <= entering[u]]_vars

\* C5: once the stored status is ended, the stored entries never change.
C5_EndedEntriesFrozen ==
    [][stored.status = "ended" => stored'.entries = stored.entries]_vars

\* C6: in every state, a document holds winners only if its status is ended.
C6_WinnersOnlyWhenEnded == stored.winners # <<>> => stored.status = "ended"

\* C7: every call of end_giveaway by the sweep leaves the giveaway ended when
\* it returns, whatever the outcome of its message fetch and message edit.
C7_SweepEnds ==
    [][(conclude["check_giveaways"].pc # "idle" /\ conclude'["check_giveaways"].pc = "idle")
          => stored'.status = "ended"]_vars

\* C8: when gstart has finished or failed, a giveaway message was posted
\* exactly if a document was stored.
C8_CreationAtomic ==
    gstart.pc \in {"done", "failed"} => ((message # "none") <=> (stored.status # "none"))

\* C9: the store write of greroll leaves status and entries as they are and
\* stores min(winner_count, |entries|) distinct participants taken from the
\* stored entries.
C9_RerollWinners ==
    [][(reroll.pc = "update" /\ reroll'.pc = "idle")
          => /\ stored'.status = stored.status
             /\ stored'.entries = stored.entries
             /\ Len(stored'.winners) = Min(stored.winner_count, Len(stored.entries))
             /\ Subset(stored'.winners, stored.entries)
             /\ NoDuplicates(stored'.winners)]_vars

\* C10: the stored status never goes back from ended, whatever enter, the
\* sweep, gend and greroll do afterwards.
C10_StatusForward ==
    [][stored.status = "ended" => stored'.status = "ended"]_vars

\* C10 witness: an ended giveaway that a reroll has written to, with an
\* entry pushed by a handler and the message edited by end_giveaway.
C10_Witness ==
    /\ stored.status = "ended"
    /\ stored.rerolled
    /\ stored.entries # <<>>
    /\ message = "ended"

\* C11: a giveaway message or a document exists only for a request made
\* with manage-messages, 1..20 winners, a duration that parses to 60..2419200
\* seconds and the right to send in the channel, and the document starts
\* active with no entries; every other request is rejected, and a rejected
\* request leaves no message and no document.
C11_StartChecks ==
    LET seconds == parse_duration(gstart.duration)
        allowed == /\ gstart.manage_messages
                   /\ gstart.winners \in MinWinners..MaxWinners
                   /\ seconds # ValueError
                   /\ seconds \in MinDuration..MaxDuration
                   /\ gstart.send_messages
    IN  /\ (message # "none" \/ stored.status # "none") => allowed
        /\ (gstart.pc # "idle" /\ ~allowed) => gstart.pc = "rejected"
        /\ gstart.pc = "rejected" => (message = "none" /\ stored.status = "none")
        /\ stored.status # "none" =>
              /\ stored.status = "active"
              /\ stored.entries = <<>>
              /\ stored.winner_count = gstart.winners

\* C11 witness: a giveaway with the most winners and the longest duration
\* allowed has its message posted and its document stored.
C11_Witness ==
    /\ gstart.pc = "done"
    /\ gstart.winners = MaxWinners
    /\ parse_duration(gstart.duration) = MaxDuration
    /\ message = "posted"
    /\ stored.status = "active"

\* The reading of a duration: blanks, then digits, then one unit letter of
\* either case, then blanks.
UnitLetters == {"s", "m", "h", "d", "w", "S", "M", "H", "D", "W"}

UnitSeconds(c) ==
    CASE c \in {"s", "S"} -> 1
      [] c \in {"m", "M"} -> 60
      [] c \in {"h", "H"} -> 3600
      [] c \in {"d", "D"} -> 86400
      [] c \in {"w", "W"} -> 604800

RECURSIVE Decimal(_)
Decimal(digits) ==
    IF digits = <<>> THEN 0 ELSE DigitVal(Head(digits)) * 10 ^ (Len(digits) - 1) + Decimal(Tail(digits))

Padded(s, i, j) ==
    /\ i < j
    /\ \A k \in 1..(i - 1) : s[k] \in Whitespace
    /\ \A k \in i..(j - 1) : s[k] \in Digit
    /\ s[j] \in UnitLetters
    /\ \A k \in (j + 1)..Len(s) : s[k] \in Whitespace

\* C12 as stated: parse_duration returns digits x unit seconds for a string
\* that matches ^\d+[smhdw]$ as given, and fails for every other string.
C12_ParseAsGiven ==
    parsed # NotCalled =>
        IF duration_match(duration_str)
        THEN parsed = Decimal(SubSeq(duration_str, 1, Len(duration_str) - 1))
                        * UnitSeconds(duration_str[Len(duration_str)])
        ELSE parsed = ValueError

\* C12 amended: parse_duration returns digits x unit seconds for a string
\* made of digits and one unit letter of either case, with blanks allowed
\* before and after (30s is 30, 5m 300, 2h 7200, 3d 259200, 1w 604800), and
\* fails for every other string.
C12_ParseNormalised ==
    LET s == duration_str
        at == {ij \in (1..Len(s)) \X (1..Len(s)) : Padded(s, ij[1], ij[2])}
    IN  parsed # NotCalled =>
          /\ at = {} => parsed = ValueError
          /\ \A ij \in at :
                parsed = Decimal(SubSeq(s, ij[1], ij[2] - 1)) * UnitSeconds(s[ij[2]])
          /\ s = <<"3", "0", "s">> => parsed = 30
          /\ s = <<"5", "m">> => parsed = 300
          /\ s = <<"2", "h">> => parsed = 7200
          /\ s = <<"3", "d">> => parsed = 259200
          /\ s = <<"1", "w">> => parsed = 604800

\* C12 witness: a string with an upper-case unit letter and a trailing blank
\* has been parsed to 60 seconds.
C12_Witness ==
    /\ duration_str = <<"1", "M", " ">>
    /\ parsed = 60

\* C13: an operation that meets a state it must reject does not go on to a
\* store write: no Enter handler proceeds for a giveaway that is not active,
\* that is past its end time, or that already holds the participant; gend
\* starts no conclusion of a giveaway that is not active; greroll starts no
\* store write for a giveaway that is not ended or has no entries.  The
\* document changes only in a step of a handler that passed its checks.
C13_RejectedUnchanged ==
    [][/\ \A u \in Users :
            (stored.status # "active" \/ now > stored.end_time \/ Contains(stored.entries, u))
                => entering'[u] <= entering[u]
       /\ (stored.status # "active" /\ conclude["giveaway_end"].pc = "idle")
                => conclude'["giveaway_end"].pc = "idle"
       /\ ((stored.status # "ended" \/ stored.entries = <<>>) /\ reroll.pc = "idle")
                => reroll'.pc = "idle"
       /\ stored' # stored =>
             \/ gstart.pc = "insert" /\ gstart'.pc = "done"
             \/ \E u \in Users : entering'[u] < entering[u]
             \/ \E c \in Callers : conclude[c].pc \in {"mark_deleted", "store", "mark"}
                                      /\ conclude'[c] # conclude[c]
             \/ reroll.pc = "update" /\ reroll'.pc = "idle"]_vars

\* C13 witness: an ended giveaway without entries whose message still
\* carries the Enter button, with no handler running: a click by anybody,
\* gend and greroll are all rejected here.
C13_Witness ==
    /\ stored.status = "ended"
    /\ stored.entries = <<>>
    /\ message = "posted"
    /\ \A u \in Users : entering[u] = 0
    /\ \A c \in Callers : conclude[c].pc = "idle"
    /\ reroll.pc = "idle"

\* C14: a call of end_giveaway whose fetch_message finds the message deleted
\* goes to the except branch, and that branch sets the stored status to
\* ended, leaves the message alone and returns to the caller.
C14_DeletedMessage ==
    [][\A c \in Callers :
          /\ (conclude[c].pc = "fetch" /\ message = "deleted" /\ conclude'[c] # conclude[c])
                => /\ conclude'[c].pc = "mark_deleted"
                   /\ message' = message
          /\ (conclude[c].pc = "mark_deleted" /\ conclude'[c] # conclude[c])
                => /\ stored'.status = "ended"
                   /\ message' = message
                   /\ conclude'[c].pc = "idle"]_vars

\* C14 witness: the message is deleted, a call of end_giveaway has failed to
\* fetch it and is about to write the status of a giveaway still active.
C14_Witness ==
    \E c \in Callers :
        /\ conclude[c].pc = "mark_deleted"
        /\ message = "deleted"
        /\ stored.status = "active"

\* C15: every stored document has its end time at least 60 seconds and at
\* most 28 days (2419200 seconds) after its start time.
C15_DurationWindow ==
    stored.status # "none" =>
        /\ stored.start_time + MinDuration <= stored.end_time
        /\ stored.end_time <= stored.start_time + MaxDuration

\* C16: close() closes the store connection only when the sweep loop is
\* cancelled, and no step of a sweep pass that reads or writes the store is
\* taken on a closed connection.
C16_CancelBeforeClose ==
    [][/\ (bot.db = "connected" /\ bot'.db = "closed") => bot.check_giveaways = "cancelled"
       /\ (/\ conclude'["check_giveaways"] # conclude["check_giveaways"]
           /\ conclude["check_giveaways"].pc \in {"idle", "mark_deleted", "store", "mark"}
           /\ ~Cancelling("check_giveaways"))
             => bot.db = "connected"]_vars

\* C17: when the search of a play command returns a song while no source is
\* playing and there is no current song, that song becomes current, the
\* queue is left as it is, and a play_next coroutine goes on to resolve and
\* start the song.
C17_PlayStarts ==
    [][(/\ plays'.search < plays.search
        /\ ~is_playing
        /\ player.current = None
        /\ player'.current # None)
          => /\ player'.queue = player.queue
             /\ tasks'.from_url[player'.current] = tasks.from_url[player'.current] + 1]_vars

\* C18: a play_next scheduled at the end of a source, under loop mode off,
\* takes the front of the queue and goes on to resolve it; with an empty
\* queue it clears the current song and leaves nothing playing or resolving.
C18_AdvanceOff ==
    [][(tasks'.scheduled < tasks.scheduled /\ player.loop_mode = "off")
          => IF player.queue # <<>>
             THEN /\ player'.queue = Tail(player.queue)
                  /\ tasks'.from_url[Head(player.queue)]
                        = tasks.from_url[Head(player.queue)] + 1
             ELSE /\ player'.current = None
                  /\ tasks'.from_url = tasks.from_url]_vars

\* C19: a play_next scheduled at the end of a source, under loop mode queue
\* with a current song T, goes on to resolve the first song of the queue
\* followed by T and leaves the rest as the queue; with an empty queue that
\* song is T again.
C19_AdvanceQueue ==
    [][(tasks'.scheduled < tasks.scheduled /\ player.loop_mode = "queue"
            /\ player.current # None)
          => LET rotated == Append(player.queue, player.current)
             IN  /\ player'.queue = Tail(rotated)
                 /\ tasks'.from_url[Head(rotated)] = tasks.from_url[Head(rotated)] + 1]_vars

\* C20: a play_next scheduled at the end of a source, under loop mode song
\* with a current song T, goes on to resolve T and leaves the queue and the
\* current song as they are; when T is started again under loop mode song
\* the queue and the current song are still the same.
C20_AdvanceSong ==
    [][/\ (tasks'.scheduled < tasks.scheduled /\ player.loop_mode = "song"
            /\ player.current # None)
          => /\ player'.queue = player.queue
             /\ player'.current = player.current
             /\ tasks'.from_url[player.current] = tasks.from_url[player.current] + 1
       /\ (/\ player.loop_mode = "song"
           /\ player.current # None
           /\ voice.source = None
           /\ voice'.source = player.current)
          => /\ player'.queue = player.queue
             /\ player'.current = player.current]_vars

\* C20 witness: under loop mode song the current song has been played, and
\* is being resolved again while other songs wait in the queue.
C20_Witness ==
    /\ player.loop_mode = "song"
    /\ player.current # None
    /\ voice.source = None
    /\ tasks.from_url[player.current] = 1
    /\ tasks.scheduled = 0
    /\ Len(player.queue) = MaxQueue
    /\ \A i \in 1..Len(player.queue) : player.queue[i] # player.current

C22_SkipStops ==
    [][(reply = NoReply /\ reply'.embed = "skipped" /\ voice.source # None)
          => /\ voice'.source = None
             /\ tasks'.scheduled = tasks.scheduled + 1]_vars
\* C23: whenever the current song changes to another song, by play_next, by
\* the play command on an idle session or by a play command after stop, the
\* skip votes are empty right after the change.
C23_VotesCleared ==
    [][(player'.current # player.current /\ player'.current # None)
          => player'.skip_votes = {}]_vars
\* C24: in every state of the session, without a voice client there is no
\* current song.
C24_NoClientNoCurrent == player.voice_client = None => player.current = None
\* C25: the handler of voice-state changes disconnects the session only
\* when its channel has had no human for the whole delay of auto-leave
\* before, counted from the time the channel last became empty.
C25_AutoLeaveAfterDelay ==
    [][stops' = stops + 1
          => /\ members.humans = 0
             /\ now - members.empty_since >= AutoLeaveDelay]_vars
\* C26: under any interleaving of play commands in one guild, at most one
\* call of channel.connect() is under way for the session at any time.
C26_OneConnect == plays.connect <= 1
\* C27: a play command that answers that its song was added found a current
\* song or a playing source, put the song at the back of the queue, left
\* the songs queued before in their order and the current song as it was,
\* and reports as position the index of the song in the queue of that
\* moment.
C27_AddedAtBack ==
    [][(reply = NoReply /\ reply'.embed = "added")
          => /\ player.current # None \/ is_playing
             /\ Len(player'.queue) = Len(player.queue) + 1
             /\ SubSeq(player'.queue, 1, Len(player.queue)) = player.queue
             /\ player'.current = player.current
             /\ reply'.value = Len(player.queue) + 1]_vars

\* A song was added behind another one and reported at position 2.
C27_Witness ==
    /\ reply = [embed |-> "added", value |-> 2]
    /\ Len(player.queue) = 2
    /\ player.queue[1] # player.queue[2]
\* C28: the volume of the session lies between 0 and 100 percent in every
\* state; a volume command with a level outside 0..100 is answered with an
\* error and leaves the volume as it was, one with a level L inside sets the
\* volume to L percent, and set_volume brings every value into 0..100.
C28_VolumeRange ==
    /\ player.volume \in 0..100
    /\ [][/\ player'.volume \in 0..100
          /\ (reply = NoReply /\ reply'.embed = "error") => player'.volume = player.volume
          /\ (reply = NoReply /\ reply'.embed = "volume")
                => reply'.value \in 0..100 /\ player'.volume = reply'.value
          /\ \A value \in Levels :
                set_volume(player, value).volume
                    = IF value < 0 THEN 0 ELSE IF value > 100 THEN 100 ELSE value]_vars

\* Level 100 has been set on a session that plays.
C28_Witness ==
    /\ reply = [embed |-> "volume", value |-> 100]
    /\ player.volume = 100
    /\ voice.source # None /\ voice.volume = 100
\* C29: under loop mode off and without stop, a song that a play command
\* made the current song or added to the queue is played at some later
\* time as the current song.
C29_AcceptedIsPlayed ==
    \A song \in Songs :
        (player.current = song \/ Contains(player.queue, song))
            ~> (player.current = song /\ voice.source = song)
\* The number of times that x stands in seq.
RECURSIVE Count(_, _)
Count(seq, x) ==
    IF seq = <<>> THEN 0
    ELSE (IF Head(seq) = x THEN 1 ELSE 0) + Count(Tail(seq), x)

\* C30: under loop mode queue with the current song queued again already, a
\* play_next that answers a failed resolution (no source started, no
\* callback, the current song as it was) leaves no more copies of the
\* current song in the queue than there were.
C30_NoExtraCopies ==
    [][(/\ player.loop_mode = "queue"
        /\ Contains(player.queue, player.current)
        /\ player'.queue # player.queue
        /\ player'.current = player.current
        /\ plays' = plays
        /\ voice' = voice
        /\ tasks'.scheduled = tasks.scheduled)
          => Count(player'.queue, player.current) <= Count(player.queue, player.current)]_vars
====
